---- MODULE Spec2Model ----
(***************************************************************************)
(* Mentor matching of plimate-server: the single-pair scorer               *)
(* _compute_match_score and the handler get_mentor_recommendations of      *)
(* app/api/v1/mentoring.py.                                                *)
(*                                                                         *)
(* Numbers.  The code computes in Python floats and rounds every sub-score *)
(* and the weighted total to 4 decimals.  The model carries a score as the *)
(* integer number of 1/Scale units (0.3 is 3000, 1.0 is 10000) and the     *)
(* weights in hundredths, so the weighted sum is exact in units of 1e-6    *)
(* before it is rounded.  A ratio before rounding is the pair <<k, n>>.    *)
(* Binary float error (below 1e-15) is not carried: it decides nothing in  *)
(* the code but the direction of round(x, 4) when x is an exact decimal    *)
(* tie, which no input of the model produces, and the order of two boosted *)
(* scores that agree as decimals but come from different (total, active)   *)
(* pairs, which the ranker inputs of the model do not contain.             *)
(*                                                                         *)
(* Values.  A list column holding tags is the set of its tags (the code    *)
(* only ever reads it through set(...)); an absent list (None) is          *)
(* NoneList; an absent dict and the scorer's None result are None.         *)
(***************************************************************************)
EXTENDS Integers, Sequences, FiniteSets, TLC

VARIABLES
    mentee,                   \* argument of the scorer call: a survey row
    mentor,                   \* argument of the scorer call: a mentor_details row
    result,                   \* what the scorer call returned, NotCalled before
    mentor_matching_surveys,  \* table: survey rows in order of created_at
    users,                    \* table: user rows, each with its mentor_details
    mentoring_requests,       \* table: request rows
    notifications,            \* table: notification rows
    call,                     \* the last request served
    response,                 \* and the response to it
    tasks                     \* the invocations of GET /recommendations in
                              \* flight, each with its local variables

scorer_vars == <<mentee, mentor, result>>
db_vars == <<mentor_matching_surveys, users, mentoring_requests, notifications>>
api_vars == <<call, response>>
task_vars == <<tasks>>
vars == <<mentee, mentor, result, mentor_matching_surveys, users,
          mentoring_requests, notifications, call, response, tasks>>

\* ---------------------------------------------------------------- values

None == <<>>
NoneList == {"None"}
NotCalled == [called |-> FALSE]

\* `x or []` under set(...): an absent list reads as the empty set.
OrEmpty(x) == IF x = NoneList THEN {} ELSE x

\* ------------------------------------------------------------- constants

Scale == 10000

W_fields == 35
W_frequency == 15
W_methods == 15
W_communication_styles == 20
W_mentoring_focuses == 15

\* -------------------------------------------------------------- rounding

\* n / d rounded to the nearest integer, an exact tie going to the even one
\* (Python's round).
RoundHalfEven(n, d) ==
    LET q == n \div d
        r == n % d
    IN  IF 2 * r < d THEN q
        ELSE IF 2 * r > d THEN q + 1
        ELSE IF q % 2 = 0 THEN q ELSE q + 1

\* round(x, 4) of the ratio x = <<k, n>>, in units of 1/Scale.
Round4(x) == RoundHalfEven(x[1] * Scale, x[2])

\* The Jaccard ratio: mentor tags outside the mentee's set lower it.
CoverageRatio_Jaccard(a, b) ==
    IF a # {} THEN <<Cardinality(a \cap b), Cardinality(a \cup b)>> ELSE <<0, 1>>

\* len(a & b) / len(a) if a else 0.0
CoverageRatio(a, b) ==
    IF a # {} THEN <<Cardinality(a \cap b), Cardinality(a)>> ELSE <<0, 1>>

\* ---------------------------------------------------------------- scorer

\* The test without its first half: an empty mentee set fails it too.
HardConstraintFails_EmptyFails(mentee_set, mentor_set) ==
    mentee_set \cap mentor_set = {}

\* The scorer without its hard constraint: no pair is rejected.
HardConstraintFails_Never(mentee_set, mentor_set) == FALSE

\* if mentee_days and not (mentee_days & mentor_days): return None
\* (and the same test on the time slots)
HardConstraintFails(mentee_set, mentor_set) ==
    mentee_set # {} /\ mentee_set \cap mentor_set = {}

\* A mentor without a frequency accepts every frequency.
FrequencyScore_EmptyAcceptsAll(frequency, mentor_freq) ==
    IF mentor_freq = {} \/ frequency \in mentor_freq THEN <<1, 1>> ELSE <<0, 1>>

\* frequency_score = 1.0 if mentee["frequency"] in mentor_freq else 0.0
FrequencyScore(frequency, mentor_freq) ==
    IF frequency \in mentor_freq THEN <<1, 1>> ELSE <<0, 1>>

\* The methods scored as a coverage ratio, FLEXIBLE a tag like the others.
MethodsScore_Ratio(mentee_methods, mentor_methods) ==
    CoverageRatio(mentee_methods, mentor_methods)

\* FLEXIBLE a wildcard among the mentor's methods only.
MethodsScore_MentorWildcardOnly(mentee_methods, mentor_methods) ==
    IF "FLEXIBLE" \in mentor_methods
    THEN <<1, 1>>
    ELSE IF mentee_methods \cap mentor_methods # {}
         THEN <<1, 1>> ELSE <<0, 1>>

\* FLEXIBLE on either side is a wildcard, else one shared method is enough.
MethodsScore(mentee_methods, mentor_methods) ==
    IF "FLEXIBLE" \in mentee_methods \/ "FLEXIBLE" \in mentor_methods
    THEN <<1, 1>>
    ELSE IF mentee_methods \cap mentor_methods # {}
         THEN <<1, 1>> ELSE <<0, 1>>

\* The superseded weighting of seven dimensions, availability included.
WeightedSum_SevenWay(scores) ==
    25 * scores.fields
    + 10 * scores.frequency
    + 15 * scores.available_days
    + 15 * scores.time_slots
    + 10 * scores.methods
    + 15 * scores.communication_styles
    + 10 * scores.mentoring_focuses

\* sum(_WEIGHTS[k] * scores[k] for k in _WEIGHTS), in units of 1e-6
WeightedSum(scores) ==
    W_fields * scores.fields
    + W_frequency * scores.frequency
    + W_methods * scores.methods
    + W_communication_styles * scores.communication_styles
    + W_mentoring_focuses * scores.mentoring_focuses

_compute_match_score(mentee_, mentor_) ==
    LET mentee_days == OrEmpty(mentee_.available_days)
        mentor_days == OrEmpty(mentor_.available_days)
        mentee_slots == OrEmpty(mentee_.time_slots)
        mentor_slots == OrEmpty(mentor_.time_slots)
        days_score == CoverageRatio(mentee_days, mentor_days)
        slots_score == CoverageRatio(mentee_slots, mentor_slots)
        mentee_fields == OrEmpty(mentee_.fields)
        mentor_fields == OrEmpty(mentor_.fields)
        fields_score == CoverageRatio(mentee_fields, mentor_fields)
        mentor_freq == OrEmpty(mentor_.frequency)
        frequency_score == FrequencyScore(mentee_.frequency, mentor_freq)
        mentee_methods == OrEmpty(mentee_.methods)
        mentor_methods == OrEmpty(mentor_.methods)
        methods_score == MethodsScore(mentee_methods, mentor_methods)
        mentee_styles == OrEmpty(mentee_.communication_styles)
        mentor_styles == OrEmpty(mentor_.communication_styles)
        styles_score == CoverageRatio(mentee_styles, mentor_styles)
        mentee_focuses == OrEmpty(mentee_.mentoring_focuses)
        mentor_focuses == OrEmpty(mentor_.mentoring_focuses)
        focuses_score == CoverageRatio(mentee_focuses, mentor_focuses)
        scores ==
            [fields |-> Round4(fields_score),
             frequency |-> Round4(frequency_score),
             available_days |-> Round4(days_score),
             time_slots |-> Round4(slots_score),
             methods |-> Round4(methods_score),
             communication_styles |-> Round4(styles_score),
             mentoring_focuses |-> Round4(focuses_score)]
        total == RoundHalfEven(WeightedSum(scores), 100)
    IN  IF HardConstraintFails(mentee_days, mentor_days) THEN None
        ELSE IF HardConstraintFails(mentee_slots, mentor_slots) THEN None
        ELSE [total |-> total, breakdown |-> scores]

\* ------------------------------------------------- inputs of the scorer

\* Survey rows the scorer is applied to.
MenteeSurveys ==
    [fields : {{"CAREER_EMPLOYMENT"},
               {"CAREER_EMPLOYMENT", "ENTREPRENEURSHIP_LEADERSHIP"},
               {"CAREER_EMPLOYMENT", "ACADEMICS_STUDY", "ENTREPRENEURSHIP_LEADERSHIP"}},
     frequency : {"MONTHLY", "ONE_TIME"},
     available_days : {{}, {"MON"}, {"MON", "TUE"}},
     time_slots : {NoneList, {"MORNING"}},
     methods : {{"FLEXIBLE"}, {"ONLINE"}, {"ONLINE", "OFFLINE"}},
     communication_styles : {{"DIRECT_CLEAR"}, {"DIRECT_CLEAR", "HORIZONTAL_COMFORTABLE"}},
     mentoring_focuses : {{}, {"PRACTICE_ORIENTED"}}]

\* mentor_details rows the scorer is applied to.
MentorDetails ==
    [fields : {NoneList, {"CAREER_EMPLOYMENT", "ACADEMICS_STUDY"},
               {"ENTREPRENEURSHIP_LEADERSHIP"},
               {"CAREER_EMPLOYMENT", "ACADEMICS_STUDY",
                "ENTREPRENEURSHIP_LEADERSHIP", "SELF_DEVELOPMENT_HOBBIES"}},
     frequency : {NoneList, {}, {"MONTHLY", "LONG_TERM"}},
     available_days : {NoneList, {"TUE"}, {"MON", "WED"}},
     time_slots : {{"EVENING"}, {"MORNING", "EVENING"}},
     methods : {{}, {"ONLINE"}, {"OFFLINE"}, {"OFFLINE", "FLEXIBLE"}},
     communication_styles : {{}, {"DIRECT_CLEAR", "SOFT_SUPPORTIVE"}},
     mentoring_focuses : {{"PRACTICE_ORIENTED"}, {"ADVICE_COUNSELING"}}]

\* ------------------------------------------------------------- the ranker

_MIN_MATCH_SCORE == 3000
_NEW_MENTOR_BOOST == 1000
_MENTEE_CAP == 5

Max(a, b) == IF a >= b THEN a ELSE b
Min(a, b) == IF a <= b THEN a ELSE b

\* The survey query ordered by created_at ascending: the user's oldest row.
mentee_result_Oldest(user) ==
    LET mine == {i \in DOMAIN mentor_matching_surveys :
                    mentor_matching_surveys[i].user_id = user}
    IN  IF mine = {} THEN <<>>
        ELSE <<mentor_matching_surveys[CHOOSE i \in mine : \A j \in mine : i <= j]>>

\* .eq("user_id", user).order("created_at", desc=True).limit(1): the data of
\* the survey query, a list holding the user's newest row or nothing.
mentee_result(user) ==
    LET mine == {i \in DOMAIN mentor_matching_surveys :
                    mentor_matching_surveys[i].user_id = user}
    IN  IF mine = {} THEN <<>>
        ELSE <<mentor_matching_surveys[CHOOSE i \in mine : \A j \in mine : j <= i]>>

\* .eq("role", "MENTOR").neq("id", user): the mentor rows, in table order.
mentors_result(user) ==
    SelectSeq(users, LAMBDA row : row.role = "MENTOR" /\ row.id # user)

\* The query with .neq("status", "REJECTED"): PENDING requests count too.
active_requests_NotRejected(mentor_ids) ==
    SelectSeq(mentoring_requests,
              LAMBDA req : req.mentor_id \in mentor_ids /\ req.status # "REJECTED")

\* .in_("mentor_id", mentor_ids).eq("status", "ACCEPTED")
active_requests(mentor_ids) ==
    SelectSeq(mentoring_requests,
              LAMBDA req : req.mentor_id \in mentor_ids /\ req.status = "ACCEPTED")

\* mentee_count.get(mid, 0) once the count map is built from the rows.
mentee_count(requests, mid) ==
    Cardinality({i \in DOMAIN requests : requests[i].mentor_id = mid})

\* The boost without max(0.0, ...): negative above the cap.
Boost_NoFloor(active) ==
    (_NEW_MENTOR_BOOST * (_MENTEE_CAP - active)) \div _MENTEE_CAP

\* The boost growing with the load instead of decaying.
Boost_Inverted(active) ==
    (_NEW_MENTOR_BOOST * Min(active, _MENTEE_CAP)) \div _MENTEE_CAP

\* boost = _NEW_MENTOR_BOOST * max(0.0, 1.0 - active / _MENTEE_CAP); the
\* division is exact, _MENTEE_CAP dividing _NEW_MENTOR_BOOST.
Boost(active) ==
    (_NEW_MENTOR_BOOST * Max(0, _MENTEE_CAP - active)) \div _MENTEE_CAP

\* The boosted score without min(1.0, ...).
BoostedScore_NoClamp(total, active) == total + Boost(active)

\* boosted_score = min(1.0, total + boost)
BoostedScore(total, active) == Min(Scale, total + Boost(active))

\* The filter with <= for <.
BelowMinScore_Inclusive(total) == total <= _MIN_MATCH_SCORE

\* if total < _MIN_MATCH_SCORE: continue
BelowMinScore(total) == total < _MIN_MATCH_SCORE

\* The skip that only looks at the presence of mentor_details.
SkipsRow_AbsentOnly(details) == details = None

\* if not details or not details.get("fields"): continue
SkipsRow(details) == details = None \/ OrEmpty(details.fields) = {}

\* The loop over the mentor rows: the list `scored` of (boosted_score, card).
RECURSIVE ScoreMentors(_, _, _)

\* The loop leaving at the first mentor the scorer returns None for: the
\* rows behind it are not scored.
ScoreMentors_AbortsOnHardFail(rows, mentee_survey, requests) ==
    IF rows = <<>> THEN <<>>
    ELSE
        LET row == Head(rows)
            rest == ScoreMentors(Tail(rows), mentee_survey, requests)
            details == row.mentor_details
        IN  IF SkipsRow(details) THEN rest
            ELSE
                LET scored == _compute_match_score(mentee_survey, details)
                IN  IF scored = None THEN <<>>
                    ELSE IF BelowMinScore(scored.total) THEN rest
                    ELSE
                        LET active == mentee_count(requests, row.id)
                            boosted_score == BoostedScore(scored.total, active)
                            card == [mentor_id |-> row.id,
                                     name |-> row.name,
                                     match_score |-> boosted_score,
                                     score_breakdown |-> scored.breakdown]
                        IN  <<(<<boosted_score, card>>)>> \o rest

\* The loop with the minimum score tested on the boosted score.
ScoreMentors_FloorAfterBoost(rows, mentee_survey, requests) ==
    IF rows = <<>> THEN <<>>
    ELSE
        LET row == Head(rows)
            rest == ScoreMentors(Tail(rows), mentee_survey, requests)
            details == row.mentor_details
        IN  IF SkipsRow(details) THEN rest
            ELSE
                LET scored == _compute_match_score(mentee_survey, details)
                IN  IF scored = None THEN rest
                    ELSE
                        LET active == mentee_count(requests, row.id)
                            boosted_score == BoostedScore(scored.total, active)
                            card == [mentor_id |-> row.id,
                                     name |-> row.name,
                                     match_score |-> boosted_score,
                                     score_breakdown |-> scored.breakdown]
                        IN  IF BelowMinScore(boosted_score) THEN rest
                            ELSE <<(<<boosted_score, card>>)>> \o rest

ScoreMentors(rows, mentee_survey, requests) ==
    IF rows = <<>> THEN <<>>
    ELSE
        LET row == Head(rows)
            rest == ScoreMentors(Tail(rows), mentee_survey, requests)
            details == row.mentor_details
        IN  IF SkipsRow(details) THEN rest
            ELSE
                LET scored == _compute_match_score(mentee_survey, details)
                IN  IF scored = None THEN rest
                    ELSE IF BelowMinScore(scored.total) THEN rest
                    ELSE
                        LET active == mentee_count(requests, row.id)
                            boosted_score == BoostedScore(scored.total, active)
                            card == [mentor_id |-> row.id,
                                     name |-> row.name,
                                     match_score |-> boosted_score,
                                     score_breakdown |-> scored.breakdown]
                        IN  <<(<<boosted_score, card>>)>> \o rest

\* A step of an ascending sort (reverse=True forgotten).
InsertDesc_Ascending(sorted, x) ==
    LET before == {i \in DOMAIN sorted : sorted[i][1] <= x[1]}
        k == Cardinality(before)
    IN  SubSeq(sorted, 1, k) \o <<x>> \o SubSeq(sorted, k + 1, Len(sorted))

\* A step of a descending sort that puts x before the entries of equal key.
InsertDesc_TiesReversed(sorted, x) ==
    LET before == {i \in DOMAIN sorted : sorted[i][1] > x[1]}
        k == Cardinality(before)
    IN  SubSeq(sorted, 1, k) \o <<x>> \o SubSeq(sorted, k + 1, Len(sorted))

\* One step of the sort: x goes behind every entry whose key is not smaller.
InsertDesc(sorted, x) ==
    LET before == {i \in DOMAIN sorted : sorted[i][1] >= x[1]}
        k == Cardinality(before)
    IN  SubSeq(sorted, 1, k) \o <<x>> \o SubSeq(sorted, k + 1, Len(sorted))

\* scored.sort(key=lambda x: x[0], reverse=True): a stable sort, largest
\* key first, entries of equal key in the order they had.
RECURSIVE SortDesc(_)
SortDesc(scored) ==
    IF scored = <<>> THEN <<>>
    ELSE InsertDesc(SortDesc(SubSeq(scored, 1, Len(scored) - 1)),
                    scored[Len(scored)])

\* The slice that always starts at the first entry (offset ignored).
Slice_IgnoresOffset(seq, start, stop) ==
    IF stop - start <= 0 THEN <<>>
    ELSE SubSeq(seq, 1, Min(stop - start, Len(seq)))

\* seq[start : stop] for 0 <= start
Slice(seq, start, stop) ==
    IF start >= Min(stop, Len(seq)) THEN <<>>
    ELSE SubSeq(seq, start + 1, Min(stop, Len(seq)))

\* The list `scored` after the sort.
Ranked(user) ==
    LET mentors == mentors_result(user)
        mentor_ids == {mentors[i].id : i \in DOMAIN mentors}
    IN  SortDesc(ScoreMentors(mentors, mentee_result(user)[1],
                              active_requests(mentor_ids)))

\* The count of the page instead of the count of the list.
TotalCount_OfPage(scored, page) == Len(page)

\* total_count = len(scored)
TotalCount(scored, page) == Len(scored)

\* The response of GET /recommendations.
\* The handler answering an empty mentor pool with 404.
Recommendations_EmptyPoolNotFound(user, limit, offset) ==
    IF mentee_result(user) = <<>> THEN [status |-> 404]
    ELSE IF mentors_result(user) = <<>> THEN [status |-> 404]
    ELSE
        LET scored == Ranked(user)
            page == Slice(scored, offset, offset + limit)
        IN  [status |-> 200,
             recommendations |-> [i \in DOMAIN page |-> page[i][2]],
             total |-> TotalCount(scored, page)]

Recommendations(user, limit, offset) ==
    IF mentee_result(user) = <<>> THEN [status |-> 404]
    ELSE IF mentors_result(user) = <<>>
    THEN [status |-> 200, recommendations |-> <<>>, total |-> 0]
    ELSE
        LET scored == Ranked(user)
            page == Slice(scored, offset, offset + limit)
            total_count == TotalCount(scored, page)
        IN  [status |-> 200,
             recommendations |-> [i \in DOMAIN page |-> page[i][2]],
             total |-> total_count]

\* ------------------------------------------------- inputs of the ranker

MaxAccepted == 6
MaxLimit == 4
MaxOffset == 3

\* limit: int = Query(10, ge=1, le=50), offset: int = Query(0, ge=0)
DefaultLimit == 10
DefaultOffset == 0

Requester == "u1"
MentorIds == <<"m1", "m2", "m3">>

\* Surveys as POST /survey stores them (every list holds at least one tag).
SubmittedSurveys ==
    {s \in MenteeSurveys :
        /\ s.fields = {"CAREER_EMPLOYMENT"}
        /\ s.frequency = "MONTHLY"
        /\ s.available_days # {}
        /\ s.time_slots = {"MORNING"}
        /\ s.methods = {"ONLINE"}
        /\ s.communication_styles = {"DIRECT_CLEAR"}
        /\ s.mentoring_focuses = {"PRACTICE_ORIENTED"}}

SurveyTables ==
    {<<>>} \cup {<<[user_id |-> Requester] @@ s>> : s \in SubmittedSurveys}

\* A mentor_details row matching a submitted survey in every dimension.
FullDetails ==
    [fields |-> {"CAREER_EMPLOYMENT", "ACADEMICS_STUDY"},
     frequency |-> {"MONTHLY", "LONG_TERM"},
     available_days |-> {"MON", "WED"},
     time_slots |-> {"MORNING", "EVENING"},
     methods |-> {"ONLINE"},
     communication_styles |-> {"DIRECT_CLEAR", "SOFT_SUPPORTIVE"},
     mentoring_focuses |-> {"PRACTICE_ORIENTED"}]

\* A mentor_details row with fields and availability only.
BareDetails ==
    [fields |-> {"ENTREPRENEURSHIP_LEADERSHIP"},
     frequency |-> NoneList,
     available_days |-> {"MON", "WED"},
     time_slots |-> {"MORNING", "EVENING"},
     methods |-> {},
     communication_styles |-> {},
     mentoring_focuses |-> {"ADVICE_COUNSELING"}]

\* mentor_details of a mentor row: absent, or one of these.
RankDetails ==
    {None,
     [FullDetails EXCEPT !.fields = NoneList],
     [FullDetails EXCEPT !.fields = {}],
     [FullDetails EXCEPT !.available_days = {"TUE"}],
     [BareDetails EXCEPT !.communication_styles = {"DIRECT_CLEAR", "SOFT_SUPPORTIVE"}],
     [BareDetails EXCEPT !.frequency = {"MONTHLY", "LONG_TERM"},
                         !.methods = {"ONLINE"}],
     [BareDetails EXCEPT !.frequency = {"MONTHLY", "LONG_TERM"},
                         !.mentoring_focuses = {"PRACTICE_ORIENTED"}],
     [BareDetails EXCEPT !.fields = {"CAREER_EMPLOYMENT", "ACADEMICS_STUDY"}],
     FullDetails}

\* The users table: the requester (a mentor too), n mentors, a non-mentor.
UserTable(details) ==
    <<[id |-> Requester, name |-> Requester, role |-> "MENTOR",
       mentor_details |-> FullDetails]>>
    \o [i \in DOMAIN details |->
           [id |-> MentorIds[i], name |-> MentorIds[i], role |-> "MENTOR",
            mentor_details |-> details[i]]]
    \o <<[id |-> "u2", name |-> "u2", role |-> "YB", mentor_details |-> None]>>

UserTables ==
    UNION {{UserTable(d) : d \in [1..n -> RankDetails]} : n \in 0..Len(MentorIds)}

RECURSIVE SumTo(_, _)
SumTo(acc, i) == IF i = 0 THEN 0 ELSE acc[i] + SumTo(acc, i - 1)

\* A request table: acc[i] ACCEPTED rows addressed to the i-th mentor, then a
\* PENDING and a REJECTED one.
RECURSIVE RequestRows(_, _)
RequestRows(acc, i) ==
    IF i = 0 THEN <<>>
    ELSE RequestRows(acc, i - 1)
         \o [k \in 1..acc[i] |->
                [mentee_id |-> "u2", mentor_id |-> MentorIds[i], status |-> "ACCEPTED"]]
         \o <<[mentee_id |-> "u2", mentor_id |-> MentorIds[i], status |-> "PENDING"],
              [mentee_id |-> "u2", mentor_id |-> MentorIds[i], status |-> "REJECTED"]>>

\* The request tables for n mentors that hold at most max ACCEPTED rows.
RequestTables(n, max) ==
    {RequestRows(acc, n) :
        acc \in {a \in [1..n -> 0..max] : SumTo(a, n) <= max}}

\* ----------------------------------------------------- scorer: the calls

InitScore ==
    /\ mentee \in MenteeSurveys
    /\ mentor \in MentorDetails
    /\ result = NotCalled
    /\ mentor_matching_surveys = <<>>
    /\ users = <<>>
    /\ mentoring_requests = <<>>
    /\ notifications = <<>>
    /\ call = None
    /\ response = None
    /\ tasks = <<>>

Score ==
    /\ result = NotCalled
    /\ result' = _compute_match_score(mentee, mentor)
    /\ UNCHANGED <<mentee, mentor, db_vars, api_vars, task_vars>>

NextScore == Score

SpecScore == InitScore /\ [][NextScore]_vars

\* ----------------------------------------------------- ranker: the calls

InitRanker(max) ==
    /\ mentee = None
    /\ mentor = None
    /\ result = NotCalled
    /\ mentor_matching_surveys \in SurveyTables
    /\ users \in UserTables
    /\ mentoring_requests \in RequestTables(Len(users) - 2, max)
    /\ notifications = <<>>
    /\ call = None
    /\ response = None
    /\ tasks = <<>>

get_mentor_recommendations(user, limit, offset) ==
    /\ call' = [user |-> user, limit |-> limit, offset |-> offset]
    /\ response' = Recommendations(user, limit, offset)
    /\ UNCHANGED <<scorer_vars, db_vars, task_vars>>

\* The request without query parameters, over tables of up to MaxAccepted
\* accepted requests.
Init == InitRanker(MaxAccepted)

Next == get_mentor_recommendations(Requester, DefaultLimit, DefaultOffset)

Spec == Init /\ [][Next]_vars

\* Requests for every page, over tables without an accepted request.
InitPage == InitRanker(0)

NextPage ==
    \E limit \in 1..MaxLimit, offset \in 0..MaxOffset :
        get_mentor_recommendations(Requester, limit, offset)

SpecPage == InitPage /\ [][NextPage]_vars

\* ---------------------------------------------------- surveys: the calls

MaxSurveys == 3

OtherUser == "u2"
SurveyUsers == {Requester, OtherUser}

\* The bodies of POST /survey and PUT /survey/me (goal, which matching does
\* not read, left out): they differ in the days and in the fields.
SurveyBodies ==
    SubmittedSurveys
    \cup {[s EXCEPT !.fields = {"CAREER_EMPLOYMENT", "ENTREPRENEURSHIP_LEADERSHIP"}] :
             s \in {x \in SubmittedSurveys : x.available_days = {"MON"}}}

\* .insert({...}).execute() on mentor_matching_surveys: the row gets its
\* created_at from the database and is the newest of the table.
insert_survey(user, survey) ==
    Append(mentor_matching_surveys, [user_id |-> user] @@ survey)

\* POST /survey
submit_survey(user, survey) ==
    /\ Len(mentor_matching_surveys) < MaxSurveys
    /\ call' = [op |-> "submit_survey", user |-> user]
    /\ \/ /\ mentor_matching_surveys' = insert_survey(user, survey)
          /\ response' = [status |-> 201, body |-> [user_id |-> user] @@ survey]
       \/ /\ UNCHANGED mentor_matching_surveys
          /\ response' = [status |-> 500]
    /\ UNCHANGED <<scorer_vars, users, mentoring_requests, notifications, task_vars>>

\* GET /survey/me: the query of the user's newest row.
get_my_survey_result(user) ==
    LET mine == {i \in DOMAIN mentor_matching_surveys :
                    mentor_matching_surveys[i].user_id = user}
    IN  IF mine = {} THEN <<>>
        ELSE <<mentor_matching_surveys[CHOOSE i \in mine : \A j \in mine : j <= i]>>

get_my_survey(user) ==
    /\ call' = [op |-> "get_my_survey", user |-> user]
    /\ response' = IF get_my_survey_result(user) = <<>> THEN [status |-> 404]
                   ELSE [status |-> 200, body |-> get_my_survey_result(user)[1]]
    /\ UNCHANGED <<scorer_vars, db_vars, task_vars>>

\* PUT /survey/me: a retake, stored as a new row.
update_my_survey(user, survey) ==
    /\ Len(mentor_matching_surveys) < MaxSurveys
    /\ call' = [op |-> "update_my_survey", user |-> user]
    /\ \/ /\ mentor_matching_surveys' = insert_survey(user, survey)
          /\ response' = [status |-> 200, body |-> [user_id |-> user] @@ survey]
       \/ /\ UNCHANGED mentor_matching_surveys
          /\ response' = [status |-> 500]
    /\ UNCHANGED <<scorer_vars, users, mentoring_requests, notifications, task_vars>>

\* No survey yet; two mentors, the first free on Tuesday only.
InitSurvey ==
    /\ mentee = None
    /\ mentor = None
    /\ result = NotCalled
    /\ mentor_matching_surveys = <<>>
    /\ users = UserTable(<<[FullDetails EXCEPT !.available_days = {"TUE"}],
                           FullDetails>>)
    /\ mentoring_requests \in RequestTables(2, 0)
    /\ notifications = <<>>
    /\ call = None
    /\ response = None
    /\ tasks = <<>>

NextSurvey ==
    \/ \E user \in SurveyUsers, survey \in SurveyBodies : submit_survey(user, survey)
    \/ \E user \in SurveyUsers, survey \in SurveyBodies : update_my_survey(user, survey)
    \/ \E user \in SurveyUsers : get_my_survey(user)
    \/ \E user \in SurveyUsers :
          get_mentor_recommendations(user, DefaultLimit, DefaultOffset)

SpecSurvey == InitSurvey /\ [][NextSurvey]_vars

\* ------------------------------------- ranker: interleaved invocations

\* An invocation of get_mentor_recommendations runs from one query to the
\* next; pc names the query it is about to send.
TaskIds == {"t1", "t2"}
TaskLimits == {1, DefaultLimit}
TaskOffsets == {0, 1}

IdleTask ==
    [pc |-> "idle", user |-> None, limit |-> 0, offset |-> 0,
     mentee_result |-> None, mentors_result |-> None, response |-> None]

\* The request arrives.
Begin(t, user, limit, offset) ==
    /\ tasks[t].pc = "idle"
    /\ tasks' = [tasks EXCEPT ![t] = [@ EXCEPT !.pc = "survey", !.user = user,
                                               !.limit = limit, !.offset = offset]]
    /\ UNCHANGED <<scorer_vars, db_vars, api_vars>>

\* The handler with its two first queries in the other order: the mentors
\* are fetched before the survey is looked at.
ReadSurvey_FetchesMentorsFirst(t) ==
    /\ tasks[t].pc = "survey"
    /\ tasks' = [tasks EXCEPT ![t] =
                    IF mentee_result(tasks[t].user) = <<>>
                    THEN [@ EXCEPT !.pc = "done", !.response = [status |-> 404],
                                   !.mentors_result = mentors_result(tasks[t].user)]
                    ELSE [@ EXCEPT !.pc = "mentors",
                                   !.mentee_result = mentee_result(tasks[t].user)]]
    /\ UNCHANGED <<scorer_vars, db_vars, api_vars>>

\* 1. Fetch mentee's latest survey; 404 without one.
ReadSurvey(t) ==
    /\ tasks[t].pc = "survey"
    /\ tasks' = [tasks EXCEPT ![t] =
                    IF mentee_result(tasks[t].user) = <<>>
                    THEN [@ EXCEPT !.pc = "done", !.response = [status |-> 404]]
                    ELSE [@ EXCEPT !.pc = "mentors",
                                   !.mentee_result = mentee_result(tasks[t].user)]]
    /\ UNCHANGED <<scorer_vars, db_vars, api_vars>>

\* 2. Fetch all mentor profiles; the empty response without one.
ReadMentors(t) ==
    /\ tasks[t].pc = "mentors"
    /\ tasks' = [tasks EXCEPT ![t] =
                    IF mentors_result(tasks[t].user) = <<>>
                    THEN [@ EXCEPT !.pc = "done",
                                   !.response = [status |-> 200,
                                                 recommendations |-> <<>>,
                                                 total |-> 0]]
                    ELSE [@ EXCEPT !.pc = "requests",
                                   !.mentors_result = mentors_result(tasks[t].user)]]
    /\ UNCHANGED <<scorer_vars, db_vars, api_vars>>

\* The list scored, shared by the invocations: the cards of the invocations
\* that are done stay in it.
TaskScored_SharedList(t) ==
    LET local == tasks[t]
        mentor_ids == {local.mentors_result[i].id : i \in DOMAIN local.mentors_result}
        mine == ScoreMentors(local.mentors_result, local.mentee_result[1],
                             active_requests(mentor_ids))
        done == {u \in TaskIds \ {t} :
                    tasks[u].pc = "done" /\ tasks[u].response.status = 200}
    IN  SortDesc(mine \o (IF done = {} THEN <<>> ELSE mine))

\* 3. - 5. of an invocation, from its own rows: the sorted list scored.
TaskScored(t) ==
    LET local == tasks[t]
        mentor_ids == {local.mentors_result[i].id : i \in DOMAIN local.mentors_result}
    IN  SortDesc(ScoreMentors(local.mentors_result, local.mentee_result[1],
                              active_requests(mentor_ids)))

\* total_count kept in a counter shared by the invocations.
TaskTotal_Shared(t) ==
    LET done == {u \in TaskIds \ {t} :
                    tasks[u].pc = "done" /\ tasks[u].response.status = 200}
    IN  Len(TaskScored(t)) + (IF done = {} THEN 0 ELSE Len(TaskScored(t)))

\* total_count = len(scored)
TaskTotal(t) == Len(TaskScored(t))

\* The response of an invocation.
TaskResponse(t) ==
    LET scored == TaskScored(t)
        page == Slice(scored, tasks[t].offset, tasks[t].offset + tasks[t].limit)
    IN  [status |-> 200,
         recommendations |-> [i \in DOMAIN page |-> page[i][2]],
         total |-> TaskTotal(t)]

\* The last steps with a scorer that replaces the absent lists of the mentor
\* dict it is given by empty ones.
Rank_NormalisesInPlace(t) ==
    /\ tasks[t].pc = "requests"
    /\ tasks' = [tasks EXCEPT ![t] =
                    [@ EXCEPT !.pc = "done",
                              !.response = TaskResponse(t),
                              !.mentors_result =
                                  [i \in DOMAIN @ |->
                                      IF @[i].mentor_details = None THEN @[i]
                                      ELSE [@[i] EXCEPT !.mentor_details =
                                              [c \in DOMAIN @ |-> OrEmpty(@[c])]]]]]
    /\ UNCHANGED <<scorer_vars, db_vars, api_vars>>

\* 3. Count active mentees, 4. score, 5. sort and paginate: no query follows
\* the one for the accepted requests.
Rank(t) ==
    /\ tasks[t].pc = "requests"
    /\ tasks' = [tasks EXCEPT ![t] = [@ EXCEPT !.pc = "done",
                                               !.response = TaskResponse(t)]]
    /\ UNCHANGED <<scorer_vars, db_vars, api_vars>>

\* Tables of up to two mentors, no accepted request, no invocation yet.
InitTasks ==
    /\ mentee = None
    /\ mentor = None
    /\ result = NotCalled
    /\ mentor_matching_surveys \in SurveyTables
    /\ users \in {u \in UserTables : Len(u) <= 4}
    /\ mentoring_requests \in RequestTables(Len(users) - 2, 0)
    /\ notifications = <<>>
    /\ call = None
    /\ response = None
    /\ tasks = [t \in TaskIds |-> IdleTask]

NextTasks ==
    \E t \in TaskIds :
        \/ \E limit \in TaskLimits, offset \in TaskOffsets :
              Begin(t, Requester, limit, offset)
        \/ ReadSurvey(t)
        \/ ReadMentors(t)
        \/ Rank(t)

SpecTasks == InitTasks /\ [][NextTasks]_vars

\* --------------------------------------------- mentoring requests: calls

MaxRequests == 3

\* The mentee who sends requests and the users they can be addressed to:
\* two mentors and a user who is no mentor.
Mentee == OtherUser
RequestTargets == {"m1", "m2", OtherUser}
RequestCallers == {"m1", "m2", OtherUser}

\* .eq("id", mentor_id).eq("role", "MENTOR").single()
mentor_result(mentor_id) ==
    SelectSeq(users, LAMBDA row : row.id = mentor_id /\ row.role = "MENTOR")

\* The handler without its check for a PENDING request.
existing_pending_NoCheck(user, mentor_id) == <<>>

\* The PENDING requests of a mentee to a mentor.
existing_pending(user, mentor_id) ==
    SelectSeq(mentoring_requests,
              LAMBDA req : /\ req.mentee_id = user
                           /\ req.mentor_id = mentor_id
                           /\ req.status = "PENDING")

\* .insert({mentee_id, mentor_id, message}): the database gives the row its
\* id and its status, PENDING.
insert_request(user, mentor_id) ==
    Append(mentoring_requests,
           [id |-> Len(mentoring_requests) + 1, mentee_id |-> user,
            mentor_id |-> mentor_id, status |-> "PENDING"])

\* create_notification: nothing for a notification to oneself, else a row.
create_notification(recipient_id, notification_type, actor_id) ==
    IF actor_id = recipient_id THEN notifications
    ELSE Append(notifications,
                [recipient_id |-> recipient_id, type |-> notification_type,
                 actor_id |-> actor_id])

\* POST /requests
create_mentoring_request(user, mentor_id) ==
    /\ call' = [op |-> "create_mentoring_request", user |-> user, mentor_id |-> mentor_id]
    /\ IF mentor_result(mentor_id) = <<>>
       THEN /\ response' = [status |-> 404]
            /\ UNCHANGED <<mentoring_requests, notifications>>
       ELSE IF existing_pending(user, mentor_id) # <<>>
       THEN /\ response' = [status |-> 409]
            /\ UNCHANGED <<mentoring_requests, notifications>>
       ELSE /\ Len(mentoring_requests) < MaxRequests
            /\ \/ /\ mentoring_requests' = insert_request(user, mentor_id)
                  /\ notifications' =
                        create_notification(mentor_id, "MENTORING_REQUEST", user)
                  /\ response' = [status |-> 201]
               \/ /\ response' = [status |-> 500]
                  /\ UNCHANGED <<mentoring_requests, notifications>>
    /\ UNCHANGED <<scorer_vars, mentor_matching_surveys, users, task_vars>>

\* .eq("id", request_id).single()
existing_request(request_id) ==
    SelectSeq(mentoring_requests, LAMBDA req : req.id = request_id)

\* The test that lets the mentee of the request through as well.
not_the_mentor_MenteeAllowed(existing, user) ==
    existing.mentor_id # user /\ existing.mentee_id # user

\* if existing.data["mentor_id"] != str(user.id): 403
not_the_mentor(existing, user) == existing.mentor_id # user

\* The test that only refuses a request that is ACCEPTED.
not_pending_AcceptedOnly(existing) == existing.status = "ACCEPTED"

\* if existing.data["status"] != "PENDING": 400
not_pending(existing) == existing.status # "PENDING"

\* .update({"status": new_status}).eq("id", request_id)
update_status(request_id, new_status) ==
    [i \in DOMAIN mentoring_requests |->
        IF mentoring_requests[i].id = request_id
        THEN [mentoring_requests[i] EXCEPT !.status = new_status]
        ELSE mentoring_requests[i]]

\* POST /requests/{request_id}/accept
accept_mentoring_request(user, request_id) ==
    /\ call' = [op |-> "accept_mentoring_request", user |-> user,
                request_id |-> request_id]
    /\ IF existing_request(request_id) = <<>>
       THEN /\ response' = [status |-> 404]
            /\ UNCHANGED <<mentoring_requests, notifications>>
       ELSE IF not_the_mentor(existing_request(request_id)[1], user)
       THEN /\ response' = [status |-> 403]
            /\ UNCHANGED <<mentoring_requests, notifications>>
       ELSE IF not_pending(existing_request(request_id)[1])
       THEN /\ response' = [status |-> 400]
            /\ UNCHANGED <<mentoring_requests, notifications>>
       ELSE /\ mentoring_requests' = update_status(request_id, "ACCEPTED")
            /\ notifications' =
                  create_notification(existing_request(request_id)[1].mentee_id,
                                      "MENTORING_ACCEPTED", user)
            /\ response' = [status |-> 200]
    /\ UNCHANGED <<scorer_vars, mentor_matching_surveys, users, task_vars>>

\* POST /requests/{request_id}/reject
reject_mentoring_request(user, request_id) ==
    /\ call' = [op |-> "reject_mentoring_request", user |-> user,
                request_id |-> request_id]
    /\ IF existing_request(request_id) = <<>>
       THEN /\ response' = [status |-> 404]
            /\ UNCHANGED mentoring_requests
       ELSE IF not_the_mentor(existing_request(request_id)[1], user)
       THEN /\ response' = [status |-> 403]
            /\ UNCHANGED mentoring_requests
       ELSE IF not_pending(existing_request(request_id)[1])
       THEN /\ response' = [status |-> 400]
            /\ UNCHANGED mentoring_requests
       ELSE /\ mentoring_requests' = update_status(request_id, "REJECTED")
            /\ response' = [status |-> 200]
    /\ UNCHANGED <<scorer_vars, mentor_matching_surveys, users, notifications,
                   task_vars>>

\* The mentor rows of the request handlers: the first with a total of 0.35
\* for the requester's survey, the second with 0.30, with 0.20, or free on
\* Tuesday only.
RequestUserTables ==
    {UserTable(<<[BareDetails EXCEPT !.fields = {"CAREER_EMPLOYMENT", "ACADEMICS_STUDY"}],
                 d>>) :
        d \in {[BareDetails EXCEPT !.frequency = {"MONTHLY", "LONG_TERM"},
                                   !.methods = {"ONLINE"}],
               [BareDetails EXCEPT !.communication_styles =
                                       {"DIRECT_CLEAR", "SOFT_SUPPORTIVE"}],
               [FullDetails EXCEPT !.available_days = {"TUE"}]}}

\* No request yet; the requester has a survey for Monday.
InitRequests ==
    /\ mentee = None
    /\ mentor = None
    /\ result = NotCalled
    /\ mentor_matching_surveys \in
          {t \in SurveyTables : t # <<>> /\ t[1].available_days = {"MON"}}
    /\ users \in RequestUserTables
    /\ mentoring_requests = <<>>
    /\ notifications = <<>>
    /\ call = None
    /\ response = None
    /\ tasks = <<>>

NextRequests ==
    \/ \E mentor_id \in RequestTargets : create_mentoring_request(Mentee, mentor_id)
    \/ \E user \in RequestCallers, request_id \in 1..MaxRequests :
          accept_mentoring_request(user, request_id)
    \/ \E user \in RequestCallers, request_id \in 1..MaxRequests :
          reject_mentoring_request(user, request_id)
    \/ get_mentor_recommendations(Requester, DefaultLimit, DefaultOffset)

SpecRequests == InitRequests /\ [][NextRequests]_vars

\* ------------------------------- mentoring requests: interleaved calls

\* A call of a request handler runs from one query to the next; pc names
\* the query it is about to send, existing the row it read.
IdleCall ==
    [pc |-> "idle", op |-> "none", user |-> "", mentor_id |-> "", request_id |-> 0,
     existing |-> None, response |-> None]

\* POST /requests arrives.
BeginCreate(t, user, mentor_id) ==
    /\ tasks[t].pc = "idle"
    /\ tasks' = [tasks EXCEPT ![t] =
                    [@ EXCEPT !.pc = "mentor", !.op = "create_mentoring_request",
                              !.user = user, !.mentor_id = mentor_id]]
    /\ UNCHANGED <<scorer_vars, db_vars, api_vars>>

\* Verify target is a mentor; 404 without the row.
FindMentor(t) ==
    /\ tasks[t].pc = "mentor"
    /\ tasks' = [tasks EXCEPT ![t] =
                    IF mentor_result(tasks[t].mentor_id) = <<>>
                    THEN [@ EXCEPT !.pc = "done", !.response = [status |-> 404]]
                    ELSE [@ EXCEPT !.pc = "pending"]]
    /\ UNCHANGED <<scorer_vars, db_vars, api_vars>>

\* Check for existing PENDING request; 409 with one.
FindPending(t) ==
    /\ tasks[t].pc = "pending"
    /\ tasks' = [tasks EXCEPT ![t] =
                    IF existing_pending(tasks[t].user, tasks[t].mentor_id) # <<>>
                    THEN [@ EXCEPT !.pc = "done", !.response = [status |-> 409]]
                    ELSE [@ EXCEPT !.pc = "insert"]]
    /\ UNCHANGED <<scorer_vars, db_vars, api_vars>>

\* Create request; 500 when the insert gives no row back.
InsertRequest(t) ==
    /\ tasks[t].pc = "insert"
    /\ Len(mentoring_requests) < MaxRequests
    /\ \/ /\ mentoring_requests' = insert_request(tasks[t].user, tasks[t].mentor_id)
          /\ tasks' = [tasks EXCEPT ![t] = [@ EXCEPT !.pc = "notify"]]
       \/ /\ tasks' = [tasks EXCEPT ![t] =
                          [@ EXCEPT !.pc = "done", !.response = [status |-> 500]]]
          /\ UNCHANGED mentoring_requests
    /\ UNCHANGED <<scorer_vars, mentor_matching_surveys, users, notifications,
                   api_vars>>

\* Notify mentor, then the response.
NotifyMentor(t) ==
    /\ tasks[t].pc = "notify"
    /\ tasks[t].op = "create_mentoring_request"
    /\ notifications' =
          create_notification(tasks[t].mentor_id, "MENTORING_REQUEST", tasks[t].user)
    /\ tasks' = [tasks EXCEPT ![t] =
                    [@ EXCEPT !.pc = "done", !.response = [status |-> 201]]]
    /\ UNCHANGED <<scorer_vars, mentor_matching_surveys, users, mentoring_requests,
                   api_vars>>

\* POST /requests/{request_id}/accept or /reject arrives.
BeginDecide(t, op, user, request_id) ==
    /\ tasks[t].pc = "idle"
    /\ tasks' = [tasks EXCEPT ![t] =
                    [@ EXCEPT !.pc = "read", !.op = op, !.user = user,
                              !.request_id = request_id]]
    /\ UNCHANGED <<scorer_vars, db_vars, api_vars>>

\* The row is read and tested: 404 without it, 403 for another user than
\* its mentor, 400 unless it reads PENDING.
ReadRequest(t) ==
    /\ tasks[t].pc = "read"
    /\ tasks' = [tasks EXCEPT ![t] =
                    IF existing_request(tasks[t].request_id) = <<>>
                    THEN [@ EXCEPT !.pc = "done", !.response = [status |-> 404]]
                    ELSE IF not_the_mentor(existing_request(tasks[t].request_id)[1],
                                           tasks[t].user)
                    THEN [@ EXCEPT !.pc = "done", !.response = [status |-> 403]]
                    ELSE IF not_pending(existing_request(tasks[t].request_id)[1])
                    THEN [@ EXCEPT !.pc = "done", !.response = [status |-> 400]]
                    ELSE [@ EXCEPT !.pc = "update",
                                   !.existing = existing_request(tasks[t].request_id)[1]]]
    /\ UNCHANGED <<scorer_vars, db_vars, api_vars>>

\* .update({"status": ...}).eq("id", request_id): the row is written
\* whatever its status is by now; reject answers, accept goes on to notify.
WriteStatus(t) ==
    /\ tasks[t].pc = "update"
    /\ IF tasks[t].op = "accept_mentoring_request"
       THEN /\ mentoring_requests' = update_status(tasks[t].request_id, "ACCEPTED")
            /\ tasks' = [tasks EXCEPT ![t] = [@ EXCEPT !.pc = "notify"]]
       ELSE /\ mentoring_requests' = update_status(tasks[t].request_id, "REJECTED")
            /\ tasks' = [tasks EXCEPT ![t] =
                            [@ EXCEPT !.pc = "done", !.response = [status |-> 200]]]
    /\ UNCHANGED <<scorer_vars, mentor_matching_surveys, users, notifications,
                   api_vars>>

\* Notify mentee, then the response.
NotifyMentee(t) ==
    /\ tasks[t].pc = "notify"
    /\ tasks[t].op = "accept_mentoring_request"
    /\ notifications' =
          create_notification(tasks[t].existing.mentee_id, "MENTORING_ACCEPTED",
                              tasks[t].user)
    /\ tasks' = [tasks EXCEPT ![t] =
                    [@ EXCEPT !.pc = "done", !.response = [status |-> 200]]]
    /\ UNCHANGED <<scorer_vars, mentor_matching_surveys, users, mentoring_requests,
                   api_vars>>

DecideOps == {"accept_mentoring_request", "reject_mentoring_request"}

\* No request yet, or the mentee's request to the first mentor with its
\* notification; no call under way.
InitRace ==
    /\ mentee = None
    /\ mentor = None
    /\ result = NotCalled
    /\ mentor_matching_surveys \in
          {t \in SurveyTables : t # <<>> /\ t[1].available_days = {"MON"}}
    /\ users \in RequestUserTables
    /\ \/ /\ mentoring_requests = <<>>
          /\ notifications = <<>>
       \/ /\ mentoring_requests =
                <<[id |-> 1, mentee_id |-> Mentee, mentor_id |-> "m1",
                   status |-> "PENDING"]>>
          /\ notifications =
                <<[recipient_id |-> "m1", type |-> "MENTORING_REQUEST",
                   actor_id |-> Mentee]>>
    /\ call = None
    /\ response = None
    /\ tasks = [t \in TaskIds |-> IdleCall]

NextRace ==
    \E t \in TaskIds :
        \/ \E mentor_id \in RequestTargets : BeginCreate(t, Mentee, mentor_id)
        \/ FindMentor(t)
        \/ FindPending(t)
        \/ InsertRequest(t)
        \/ NotifyMentor(t)
        \/ \E op \in DecideOps, user \in RequestCallers, request_id \in 1..MaxRequests :
              BeginDecide(t, op, user, request_id)
        \/ ReadRequest(t)
        \/ WriteStatus(t)
        \/ NotifyMentee(t)

SpecRace == InitRace /\ [][NextRace]_vars

\* The invocations of the ranker beside GET /survey/me.
NextAnswer ==
    \/ NextTasks
    \/ \E user \in SurveyUsers : get_my_survey(user)

SpecAnswer == InitTasks /\ [][NextAnswer]_vars

\* ------------------------------------------------------------ the claims

InUnit(x) == 0 <= x /\ x <= 10000

\* The tags of a list column, an absent list counting as empty.
TagsOf(x) == IF x = NoneList THEN {} ELSE x

Disjoint(a, b) == \A x \in a : x \notin b

\* The availability gate between a survey and a mentor_details row.
FailsGate(survey, details) ==
    \/ /\ TagsOf(survey.available_days) # {}
       /\ Disjoint(TagsOf(survey.available_days), TagsOf(details.available_days))
    \/ /\ TagsOf(survey.time_slots) # {}
       /\ Disjoint(TagsOf(survey.time_slots), TagsOf(details.time_slots))

\* C1: the scorer returns None exactly when the mentee's days are non-empty
\* and disjoint from the mentor's, or the mentee's slots are non-empty and
\* disjoint from the mentor's; an empty mentee set never fails, an absent
\* mentor set counts as empty.
C1_GateExact ==
    result # NotCalled => ((result = None) <=> FailsGate(mentee, mentor))

\* The days overlap and the slots do not: the pair failed on the slots.
C1_Witness ==
    /\ result = None
    /\ mentee.available_days = {"MON", "TUE"}
    /\ mentor.available_days = {"MON", "WED"}
    /\ mentee.time_slots = {"MORNING"}
    /\ mentor.time_slots = {"EVENING"}

\* The rows of the users table the requester can be recommended.
MentorRows ==
    {i \in DOMAIN users : users[i].role = "MENTOR" /\ users[i].id # Requester}

\* The requester's survey (the tables of the ranker hold at most one).
TheSurvey == mentor_matching_surveys[Len(mentor_matching_surveys)]

Answered == response # None /\ response.status = 200

RecIds ==
    {response.recommendations[k].mentor_id : k \in DOMAIN response.recommendations}

RowOf(id) == CHOOSE i \in MentorRows : users[i].id = id

DetailsOf(id) == users[RowOf(id)].mentor_details

\* The number of ACCEPTED request rows addressed to a mentor.
Accepted(id) ==
    Cardinality({k \in DOMAIN mentoring_requests :
                    /\ mentoring_requests[k].mentor_id = id
                    /\ mentoring_requests[k].status = "ACCEPTED"})

GateFailing(i) ==
    /\ users[i].mentor_details # None
    /\ FailsGate(TheSurvey, users[i].mentor_details)

\* C2: a mentor that fails the availability gate against the requester's
\* survey is in no returned page and is not counted in total, whatever its
\* other dimensions and its number of active mentees.
C2_GateExcludes ==
    Answered =>
        /\ \A i \in MentorRows : GateFailing(i) => users[i].id \notin RecIds
        /\ response.total <= Cardinality({i \in MentorRows : ~GateFailing(i)})

\* A mentor matching in all five weighted dimensions fails the gate and is
\* left out, the two others are returned.
C2_Witness ==
    /\ Answered
    /\ \E i \in MentorRows :
          /\ GateFailing(i)
          /\ users[i].mentor_details.fields = FullDetails.fields
          /\ users[i].mentor_details.frequency = FullDetails.frequency
          /\ Accepted(users[i].id) = 0
    /\ response.total = 2

\* A mentor row the scorer is applied to and that passes the gate.
Eligible(i) ==
    /\ users[i].mentor_details # None
    /\ TagsOf(users[i].mentor_details.fields) # {}
    /\ ~FailsGate(TheSurvey, users[i].mentor_details)

WeightedTotal(i) ==
    _compute_match_score(TheSurvey, users[i].mentor_details).total

\* C3: a mentor whose weighted total is strictly below 0.3 is absent from the
\* result and not counted in total; one whose total is exactly 0.30 (gate
\* passed, fields non-empty) is included.
C3_MinScoreFilter ==
    Answered =>
        /\ \A i \in MentorRows :
              Eligible(i) =>
                  /\ WeightedTotal(i) < 3000 => users[i].id \notin RecIds
                  /\ WeightedTotal(i) = 3000 => users[i].id \in RecIds
        /\ response.total <=
              Cardinality({i \in MentorRows : Eligible(i) /\ WeightedTotal(i) >= 3000})

\* One mentor scores 0.20 and one 0.30: only the second is returned.
C3_Witness ==
    /\ Answered
    /\ \E i, j \in MentorRows :
          /\ Eligible(i) /\ WeightedTotal(i) = 2000
          /\ Eligible(j) /\ WeightedTotal(j) = 3000
          /\ RecIds = {users[j].id}
    /\ response.total = 1

\* The weighted total of the mentor of a returned card.
TotalOf(card) == WeightedTotal(RowOf(card.mentor_id))

\* 0.10 * max(0, 1 - active / 5) in units of 1e-4.
ClaimedBoost(active) == IF active >= 5 THEN 0 ELSE 1000 - 200 * active

\* C4: the match_score of every returned card is
\* min(1.0, total + 0.10 * max(0, 1 - active / 5)), active being the number
\* of ACCEPTED requests of its mentor: the full 0.10 at 0 active mentees, a
\* boost of exactly 0 at 5 or more, and never more than 1.0.
C4_BoostFormula ==
    Answered =>
        \A k \in DOMAIN response.recommendations :
            LET card == response.recommendations[k]
                active == Accepted(card.mentor_id)
                sum == TotalOf(card) + ClaimedBoost(active)
            IN  /\ card.match_score = IF sum <= 10000 THEN sum ELSE 10000
                /\ active = 0 /\ TotalOf(card) <= 9000
                      => card.match_score = TotalOf(card) + 1000
                /\ active >= 5 => card.match_score = TotalOf(card)
                /\ card.match_score <= 10000

\* Cards of a mentor above the cap, of one below it and of one without a
\* mentee.
C4_Witness ==
    /\ Answered
    /\ \E a, b \in DOMAIN response.recommendations :
          /\ Accepted(response.recommendations[a].mentor_id) = 6
          /\ response.recommendations[a].match_score = 3000
          /\ Accepted(response.recommendations[b].mentor_id) = 0
          /\ response.recommendations[b].match_score = 4500

\* C5: of two mentors with identical profiles the one with fewer active
\* mentees never gets the lower match_score; with 0 against 5 active mentees
\* the first gets total + 0.10 (clamped to 1.0) and the second total + 0.0.
C5_BoostMonotone ==
    Answered =>
        \A a, b \in DOMAIN response.recommendations :
            LET c1 == response.recommendations[a]
                c2 == response.recommendations[b]
                t == TotalOf(c1)
            IN  DetailsOf(c1.mentor_id) = DetailsOf(c2.mentor_id) =>
                    /\ Accepted(c1.mentor_id) < Accepted(c2.mentor_id)
                          => c1.match_score >= c2.match_score
                    /\ Accepted(c1.mentor_id) = 0 /\ Accepted(c2.mentor_id) = 5
                          => /\ c1.match_score =
                                    IF t + 1000 <= 10000 THEN t + 1000 ELSE 10000
                             /\ c2.match_score = t

\* Two mentors with the same profile, 0 and 5 active mentees: 0.40 and 0.30.
C5_Witness ==
    /\ Answered
    /\ \E a, b \in DOMAIN response.recommendations :
          LET c1 == response.recommendations[a]
              c2 == response.recommendations[b]
          IN  /\ DetailsOf(c1.mentor_id) = DetailsOf(c2.mentor_id)
              /\ Accepted(c1.mentor_id) = 0 /\ Accepted(c2.mentor_id) = 5
              /\ c1.match_score = 4000 /\ c2.match_score = 3000

\* C6: the returned cards are in descending order of match_score.
C6_Descending ==
    Answered =>
        \A a, b \in DOMAIN response.recommendations :
            a < b => response.recommendations[a].match_score
                        >= response.recommendations[b].match_score

\* Three cards of three different scores, returned in the reverse of the
\* order of their rows.
C6_Witness ==
    /\ Answered
    /\ Len(response.recommendations) = 3
    /\ response.recommendations[1].mentor_id = "m3"
    /\ response.recommendations[2].mentor_id = "m2"
    /\ response.recommendations[3].mentor_id = "m1"
    /\ response.recommendations[1].match_score > response.recommendations[2].match_score
    /\ response.recommendations[2].match_score > response.recommendations[3].match_score

\* C7: cards of equal match_score keep the order of their mentor rows.
C7_StableTies ==
    Answered =>
        \A a, b \in DOMAIN response.recommendations :
            /\ a < b
            /\ response.recommendations[a].match_score
                  = response.recommendations[b].match_score
            => RowOf(response.recommendations[a].mentor_id)
                  < RowOf(response.recommendations[b].mentor_id)

\* The third row is ranked first, the first two rows tie behind it with
\* different breakdowns and keep their order.
C7_Witness ==
    /\ Answered
    /\ Len(response.recommendations) = 3
    /\ response.recommendations[1].mentor_id = "m3"
    /\ response.recommendations[2].mentor_id = "m1"
    /\ response.recommendations[3].mentor_id = "m2"
    /\ response.recommendations[2].match_score = response.recommendations[3].match_score
    /\ response.recommendations[2].score_breakdown
          # response.recommendations[3].score_breakdown
    /\ response.recommendations[1].match_score > response.recommendations[2].match_score

\* The cards of the page for (offset, limit) over the tables as they are.
PageOf(offset, limit) ==
    Recommendations(Requester, limit, offset).recommendations

\* The cards of the full ranked list.
FullList ==
    LET ranked == Ranked(Requester) IN [k \in DOMAIN ranked |-> ranked[k][2]]

IdsOf(cards) == {cards[k].mentor_id : k \in DOMAIN cards}

\* C8: over the same tables the pages for (offset 0, limit 2) and (offset 2,
\* limit 2) are disjoint and their concatenation is the page for (offset 0,
\* limit 4); the page for (offset, limit) is elements offset .. offset+limit-1
\* of the full ranked list.
C8_Pagination ==
    mentor_matching_surveys # <<>> =>
        /\ PageOf(0, 2) \o PageOf(2, 2) = PageOf(0, 4)
        /\ IdsOf(PageOf(0, 2)) \cap IdsOf(PageOf(2, 2)) = {}
        /\ Answered =>
              LET left == Len(FullList) - call.offset
                  n == IF left <= 0 THEN 0
                       ELSE IF left <= call.limit THEN left ELSE call.limit
              IN  /\ Len(response.recommendations) = n
                  /\ \A k \in 1..n :
                        response.recommendations[k] = FullList[call.offset + k]

\* The second page of two holds the third of three ranked mentors.
C8_Witness ==
    /\ Answered
    /\ call.offset = 2 /\ call.limit = 2
    /\ response.total = 3
    /\ Len(response.recommendations) = 1
    /\ Len(PageOf(0, 2)) = 2

\* C9: total is the number of mentors that survive the empty-fields skip, the
\* gate and the minimum-score filter, whatever offset and limit; at an offset
\* of total or more the page is empty and total is still that number.
C9_TotalCount ==
    Answered =>
        /\ response.total =
              Cardinality({i \in MentorRows : Eligible(i) /\ WeightedTotal(i) >= 3000})
        /\ call.offset >= response.total => response.recommendations = <<>>

\* A page beyond the two surviving mentors of three: empty, total 2.
C9_Witness ==
    /\ Answered
    /\ Cardinality(MentorRows) = 3
    /\ call.offset = 2
    /\ response.total = 2
    /\ response.recommendations = <<>>

\* Every result of the scorer over its inputs lies in [0, 1].
ScorerInUnit ==
    \A s \in MenteeSurveys, d \in MentorDetails :
        LET scored == _compute_match_score(s, d)
        IN  scored # None =>
                /\ InUnit(scored.total)
                /\ Cardinality(DOMAIN scored.breakdown) = 7
                /\ \A dim \in DOMAIN scored.breakdown : InUnit(scored.breakdown[dim])

\* C10: the seven sub-scores, the weighted total of the scorer and the
\* match_score of every returned card lie in [0.0, 1.0].
C10_Range ==
    /\ ScorerInUnit
    /\ Answered =>
          \A k \in DOMAIN response.recommendations :
              LET card == response.recommendations[k]
              IN  /\ InUnit(card.match_score)
                  /\ InUnit(TotalOf(card))
                  /\ \A dim \in DOMAIN card.score_breakdown :
                        InUnit(card.score_breakdown[dim])

\* A mentor without a mentee and with a total of 1.0: the boost is clamped.
C10_Witness ==
    /\ Answered
    /\ \E k \in DOMAIN response.recommendations :
          LET card == response.recommendations[k]
          IN  /\ Accepted(card.mentor_id) = 0
              /\ TotalOf(card) = 10000
              /\ card.match_score = 10000

\* A mentor row without profile details, or without a tag in fields.
Unprofiled(i) ==
    \/ users[i].mentor_details = None
    \/ TagsOf(users[i].mentor_details.fields) = {}

\* C11: a mentor whose profile details are absent, or whose fields are empty
\* or absent, is in no returned page and is not counted in total.
C11_SkipsUnprofiled ==
    Answered =>
        /\ \A i \in MentorRows : Unprofiled(i) => users[i].id \notin RecIds
        /\ response.total <= Cardinality({i \in MentorRows : ~Unprofiled(i)})

\* Three mentors: one without details, one whose fields are the empty list
\* and who matches in every other dimension, and one who is returned.
C11_Witness ==
    /\ Answered
    /\ \E i, j \in MentorRows :
          /\ users[i].mentor_details = None
          /\ users[j].mentor_details = [FullDetails EXCEPT !.fields = {}]
    /\ Len(response.recommendations) = 1
    /\ response.total = 1

Scored == result # NotCalled /\ result # None

Abs(x) == IF x >= 0 THEN x ELSE 0 - x

\* score is k / n to 4 decimals (in units of 1e-4), 0.0 for n = 0.
IsRatio(score, k, n) ==
    IF n = 0 THEN score = 0 ELSE 2 * Abs(n * score - 10000 * k) <= n

\* score is the coverage of the mentee's tags by the mentor's.
IsCoverage(score, mentee_tags, mentor_tags) ==
    IsRatio(score,
            Cardinality({x \in TagsOf(mentee_tags) : x \in TagsOf(mentor_tags)}),
            Cardinality(TagsOf(mentee_tags)))

\* The availabilities a mentor row of the scorer's inputs can have.
MentorAvailabilities ==
    {<<d.available_days, d.time_slots>> : d \in MentorDetails}

\* C12: the total of the scorer is the sum of 0.35 fields, 0.15 frequency,
\* 0.15 methods, 0.20 communication_styles and 0.15 mentoring_focuses, to the
\* 4 decimals it is reported with; available_days and time_slots are in the
\* breakdown and not in the sum: a mentor that differs in them only, and
\* passes the gate too, gets the same total.
C12_FiveWeightedDimensions ==
    Scored =>
        LET b == result.breakdown
            sum == 35 * b.fields + 15 * b.frequency + 15 * b.methods
                   + 20 * b.communication_styles + 15 * b.mentoring_focuses
        IN  /\ 2 * Abs(100 * result.total - sum) <= 100
            /\ sum % 100 = 0 => 100 * result.total = sum
            /\ IsCoverage(b.available_days, mentee.available_days, mentor.available_days)
            /\ IsCoverage(b.time_slots, mentee.time_slots, mentor.time_slots)
            /\ \A a \in MentorAvailabilities :
                  LET other == _compute_match_score(mentee,
                                   [mentor EXCEPT !.available_days = a[1],
                                                  !.time_slots = a[2]])
                  IN  other # None => other.total = result.total

\* Half of the mentee's days are covered and the total is 1.0.
C12_Witness ==
    /\ Scored
    /\ result.breakdown.available_days = 5000
    /\ result.breakdown.time_slots = 10000
    /\ result.total = 10000

CoverageDimensions == {"fields", "communication_styles", "mentoring_focuses"}

\* The values a column of a mentor row of the scorer's inputs can have.
MentorColumn ==
    [dim \in CoverageDimensions |-> {d[dim] : d \in MentorDetails}]

\* C13: the fields, communication_styles and mentoring_focuses sub-scores are
\* |mentee set & mentor set| / |mentee set|, 0.0 for an empty mentee set;
\* mentor tags outside the mentee's set do not change them: mentee {A, B}
\* scores 1.0 against mentor {A, B, C, D} and 0.5 against mentor {A}.
C13_CoverageRatio ==
    Scored =>
        /\ \A dim \in CoverageDimensions :
              /\ IsCoverage(result.breakdown[dim], mentee[dim], mentor[dim])
              /\ \A tags \in MentorColumn[dim] :
                    LET other == _compute_match_score(mentee,
                                     [mentor EXCEPT ![dim] = tags])
                    IN  TagsOf(tags) \cap TagsOf(mentee[dim])
                            = TagsOf(mentor[dim]) \cap TagsOf(mentee[dim])
                        => other.breakdown[dim] = result.breakdown[dim]
        /\ mentee.fields = {"CAREER_EMPLOYMENT", "ENTREPRENEURSHIP_LEADERSHIP"} =>
              /\ mentor.fields = {"CAREER_EMPLOYMENT", "ACADEMICS_STUDY",
                                  "ENTREPRENEURSHIP_LEADERSHIP",
                                  "SELF_DEVELOPMENT_HOBBIES"}
                    => result.breakdown.fields = 10000
              /\ mentor.fields = {"ENTREPRENEURSHIP_LEADERSHIP"}
                    => result.breakdown.fields = 5000

\* Two mentee fields covered by a mentor with four, and one of two mentee
\* styles covered by a mentor with another style besides.
C13_Witness ==
    /\ Scored
    /\ mentee.fields = {"CAREER_EMPLOYMENT", "ENTREPRENEURSHIP_LEADERSHIP"}
    /\ Cardinality(mentor.fields) = 4
    /\ result.breakdown.fields = 10000
    /\ mentee.communication_styles = {"DIRECT_CLEAR", "HORIZONTAL_COMFORTABLE"}
    /\ mentor.communication_styles = {"DIRECT_CLEAR", "SOFT_SUPPORTIVE"}
    /\ result.breakdown.communication_styles = 5000

\* C14: the methods sub-score is 1.0 when FLEXIBLE is among the mentee's or
\* the mentor's methods, whatever the other side; without FLEXIBLE it is 1.0
\* when the two sides share a method and 0.0 when they do not; it is never
\* a fraction.
C14_MethodsWildcard ==
    Scored =>
        LET mine == TagsOf(mentee.methods)
            theirs == TagsOf(mentor.methods)
            shared == \E x \in mine : x \in theirs
        IN  /\ "FLEXIBLE" \in mine \/ "FLEXIBLE" \in theirs
                  => result.breakdown.methods = 10000
            /\ "FLEXIBLE" \notin mine /\ "FLEXIBLE" \notin theirs /\ shared
                  => result.breakdown.methods = 10000
            /\ "FLEXIBLE" \notin mine /\ "FLEXIBLE" \notin theirs /\ ~shared
                  => result.breakdown.methods = 0
            /\ result.breakdown.methods \in {0, 10000}

\* mentee {FLEXIBLE} against mentor {OFFLINE}.
C14_Witness ==
    /\ Scored
    /\ mentee.methods = {"FLEXIBLE"}
    /\ mentor.methods = {"OFFLINE"}
    /\ result.breakdown.methods = 10000

\* C15: the frequency sub-score is 1.0 when the mentee's frequency is among
\* the frequencies the mentor accepts and 0.0 when it is not; it is 0.0 for
\* a mentor whose frequency is absent or empty.
C15_FrequencyMembership ==
    Scored =>
        /\ result.breakdown.frequency =
              IF mentee.frequency \in TagsOf(mentor.frequency) THEN 10000 ELSE 0
        /\ mentor.frequency = NoneList \/ mentor.frequency = {}
              => result.breakdown.frequency = 0

\* A mentor with the empty frequency list, matching in every other dimension.
C15_Witness ==
    /\ Scored
    /\ mentor.frequency = {}
    /\ result.breakdown.frequency = 0
    /\ result.total = 8500

\* The rows of a user in the survey table.
SurveysOf(user) ==
    {i \in DOMAIN mentor_matching_surveys :
        mentor_matching_surveys[i].user_id = user}

\* The row of a user that was created last.
LatestSurvey(user) ==
    mentor_matching_surveys[CHOOSE i \in SurveysOf(user) :
                                \A j \in SurveysOf(user) : j <= i]

\* The response of GET /recommendations to a user, from one survey row.
RankingFrom(survey, user) ==
    LET ranked == SortDesc(ScoreMentors(
                      SelectSeq(users, LAMBDA row : row.role = "MENTOR" /\ row.id # user),
                      survey,
                      SelectSeq(mentoring_requests, LAMBDA req : req.status = "ACCEPTED")))
    IN  [status |-> 200,
         recommendations |-> [k \in DOMAIN ranked |-> ranked[k][2]],
         total |-> Len(ranked)]

IsRanking == call # None /\ "limit" \in DOMAIN call

\* What the two reading handlers answer from.
C16_ReadsLatest ==
    /\ IsRanking =>
          response = IF SurveysOf(call.user) = {} THEN [status |-> 404]
                     ELSE RankingFrom(LatestSurvey(call.user), call.user)
    /\ call # None /\ ~IsRanking /\ call.op = "get_my_survey" =>
          response = IF SurveysOf(call.user) = {} THEN [status |-> 404]
                     ELSE [status |-> 200, body |-> LatestSurvey(call.user)]

\* A submission adds one row behind the rows there are and removes none.
C16_InsertOnly ==
    \/ mentor_matching_surveys' = mentor_matching_surveys
    \/ /\ Len(mentor_matching_surveys') = Len(mentor_matching_surveys) + 1
       /\ SubSeq(mentor_matching_surveys', 1, Len(mentor_matching_surveys))
             = mentor_matching_surveys
       /\ mentor_matching_surveys'[Len(mentor_matching_surveys')].user_id = call'.user

\* C16: after any sequence of submissions through POST /survey and PUT
\* /survey/me, each of which adds a row and deletes none,
\* get_mentor_recommendations and get_my_survey answer from the most recently
\* created survey of the calling user alone: not from an older survey of the
\* user, not from a survey of another user.
C16_LatestSurveyWins == []C16_ReadsLatest /\ [][C16_InsertOnly]_vars

\* The requester's first survey (Monday) matches one mentor and the second
\* (Monday, Tuesday) both; the other user submitted last; both are returned.
C16_Witness ==
    /\ Len(mentor_matching_surveys) = 3
    /\ mentor_matching_surveys[1].user_id = Requester
    /\ mentor_matching_surveys[1].available_days = {"MON"}
    /\ mentor_matching_surveys[2].user_id = Requester
    /\ mentor_matching_surveys[2].available_days = {"MON", "TUE"}
    /\ mentor_matching_surveys[3].user_id = OtherUser
    /\ mentor_matching_surveys[3].available_days = {"MON"}
    /\ IsRanking
    /\ call.user = Requester
    /\ response.total = 2

Done(t) == tasks[t].pc = "done"

SameRequest(t, u) ==
    /\ tasks[t].user = tasks[u].user
    /\ tasks[t].limit = tasks[u].limit
    /\ tasks[t].offset = tasks[u].offset

LocalsKept(t) ==
    tasks[t].pc \in {"mentors", "requests"} =>
        /\ tasks'[t].mentee_result = tasks[t].mentee_result
        /\ tasks[t].pc = "requests" =>
              tasks'[t].mentors_result = tasks[t].mentors_result

\* C18: scoring and ranking write nothing: the survey and mentor rows handed
\* to the scorer are afterwards what they were, and a step of
\* get_mentor_recommendations leaves the surveys, the users with their mentor
\* profiles, the mentoring requests and the notifications as they are.
C18_ReadOnly ==
    [][/\ UNCHANGED <<mentor_matching_surveys, users, mentoring_requests,
                      notifications>>
       /\ \A t \in TaskIds : LocalsKept(t)]_vars

\* An invocation has scored a mentor row that holds an absent list.
C18_Witness ==
    /\ Done("t1")
    /\ tasks["t1"].response.status = 200
    /\ tasks["t1"].response.total = 1
    /\ \E i \in DOMAIN tasks["t1"].mentors_result :
          /\ tasks["t1"].mentors_result[i].mentor_details # None
          /\ tasks["t1"].mentors_result[i].mentor_details.frequency = NoneList
          /\ tasks["t1"].mentors_result[i].id
                = tasks["t1"].response.recommendations[1].mentor_id

\* C19: invocations of the ranker that interleave over the same tables each
\* return the page and the total they return when run alone.
C19_Interleaved ==
    \A t \in TaskIds :
        Done(t) =>
            tasks[t].response =
                Recommendations(tasks[t].user, tasks[t].limit, tasks[t].offset)

\* One invocation returned the first of two cards while the other was
\* between two of its queries, and that one has finished too.
C19_Witness ==
    /\ Done("t1") /\ Done("t2")
    /\ ~SameRequest("t1", "t2")
    /\ tasks["t1"].response.status = 200
    /\ tasks["t1"].response.total = 2
    /\ Len(tasks["t1"].response.recommendations) = 1
    /\ Len(tasks["t2"].response.recommendations) = 2

\* The pair of the requester's survey and a mentor row hard-fails.
HardFails(i) == Unprofiled(i) \/ GateFailing(i)

CardKeys == {"mentor_id", "name", "match_score", "score_breakdown"}

BreakdownKeys ==
    {"fields", "frequency", "available_days", "time_slots", "methods",
     "communication_styles", "mentoring_focuses"}

\* C20: the one abnormal outcome of scoring a pair is the hard-fail (the
\* availability gate not satisfied, or no fields), and the ranker answers it
\* by leaving the mentor out: the request is answered without an error, the
\* mentors that do not hard-fail are ranked as without it, and every card is
\* a whole card of a mentor that did not hard-fail.
C20_HardFailOnlyExcludes ==
    /\ response # None /\ mentor_matching_surveys # <<>> => response.status = 200
    /\ Answered =>
          /\ \A i \in MentorRows :
                /\ HardFails(i) => users[i].id \notin RecIds
                /\ ~Unprofiled(i) =>
                      LET scored == _compute_match_score(TheSurvey,
                                                         users[i].mentor_details)
                      IN  IF GateFailing(i) THEN scored = None
                          ELSE /\ DOMAIN scored = {"total", "breakdown"}
                               /\ DOMAIN scored.breakdown = BreakdownKeys
                /\ ~HardFails(i) /\ WeightedTotal(i) >= 3000 => users[i].id \in RecIds
          /\ \A k \in DOMAIN response.recommendations :
                LET card == response.recommendations[k]
                IN  /\ DOMAIN card = CardKeys
                    /\ DOMAIN card.score_breakdown = BreakdownKeys
                    /\ ~HardFails(RowOf(card.mentor_id))

\* The first mentor fails the gate, the second has no fields, the third is
\* returned.
C20_Witness ==
    /\ Answered
    /\ Cardinality(MentorRows) = 3
    /\ \E i, j \in MentorRows :
          /\ i < j
          /\ GateFailing(i) /\ ~Unprofiled(i)
          /\ users[j].mentor_details # None /\ Unprofiled(j)
    /\ Len(response.recommendations) = 1
    /\ response.recommendations[1].mentor_id = "m3"

\* C21: a user without a survey gets 404 from get_mentor_recommendations
\* before a mentor is fetched or scored, and 404 from get_my_survey; a user
\* with a survey gets 200 from the recommendations; there is no other status.
C21_NoSurveyNotFound ==
    /\ \A t \in TaskIds :
          Done(t) =>
              /\ tasks[t].response.status \in {200, 404}
              /\ tasks[t].response.status = 404 <=> SurveysOf(tasks[t].user) = {}
              /\ tasks[t].response.status = 404 =>
                    /\ tasks[t].mentee_result = None
                    /\ tasks[t].mentors_result = None
                    /\ DOMAIN tasks[t].response = {"status"}
    /\ call # None =>
          response.status = IF SurveysOf(call.user) = {} THEN 404 ELSE 200

\* Two mentors are there and the requester has no survey: 404 from both
\* handlers.
C21_Witness ==
    /\ Cardinality(MentorRows) = 2
    /\ Done("t1")
    /\ tasks["t1"].response.status = 404
    /\ call # None
    /\ call.user = Requester
    /\ response.status = 404

\* C22: with no mentor row other than the requester's own,
\* get_mentor_recommendations answers a user who has a survey with an empty
\* list and total 0, without an error, at every offset and limit.
C22_EmptyPool ==
    call # None /\ mentor_matching_surveys # <<>> /\ MentorRows = {} =>
        response = [status |-> 200, recommendations |-> <<>>, total |-> 0]

\* The second page of three over a pool that holds the requester alone.
C22_Witness ==
    /\ call # None
    /\ call.limit = 3 /\ call.offset = 3
    /\ mentor_matching_surveys # <<>>
    /\ \E i \in DOMAIN users : users[i].id = Requester /\ users[i].role = "MENTOR"
    /\ MentorRows = {}
    /\ response.status = 200
    /\ response.total = 0

ExampleMentee ==
    [fields |-> {"CAREER_EMPLOYMENT"},
     frequency |-> "MONTHLY",
     available_days |-> {"MON", "TUE"},
     time_slots |-> {"MORNING"},
     methods |-> {"FLEXIBLE"},
     communication_styles |-> {"DIRECT_CLEAR"},
     mentoring_focuses |-> {"PRACTICE_ORIENTED"}]

ExampleMentor ==
    [fields |-> {"CAREER_EMPLOYMENT", "ACADEMICS_STUDY"},
     frequency |-> {"MONTHLY", "LONG_TERM"},
     available_days |-> {"MON", "WED"},
     time_slots |-> {"MORNING", "EVENING"},
     methods |-> {"ONLINE"},
     communication_styles |-> {"DIRECT_CLEAR", "SOFT_SUPPORTIVE"},
     mentoring_focuses |-> {"PRACTICE_ORIENTED"}]

\* C23: for the mentee and the mentor of the worked example the gate passes,
\* the five weighted sub-scores are 1.0, the total is 1.0, and with 0 active
\* mentees the boosted match_score is 1.0.
C23_WorkedExample ==
    mentee = ExampleMentee /\ mentor = ExampleMentor /\ result # NotCalled =>
        /\ result # None
        /\ result.breakdown.fields = 10000
        /\ result.breakdown.frequency = 10000
        /\ result.breakdown.methods = 10000
        /\ result.breakdown.communication_styles = 10000
        /\ result.breakdown.mentoring_focuses = 10000
        /\ result.total = 10000
        /\ BoostedScore(result.total, 0) = 10000

\* The scorer has returned for the pair of the example.
C23_Witness ==
    /\ mentee = ExampleMentee
    /\ mentor = ExampleMentor
    /\ Scored
    /\ result.breakdown.available_days = 5000

\* C24: the minimum score is tested on the total without the boost: a mentor
\* whose total is below 0.3 is left out also when total + boost is 0.3 or
\* more, so who is returned does not depend on the accepted requests.
C24_FloorBeforeBoost ==
    Answered =>
        /\ \A i \in MentorRows :
              /\ Eligible(i)
              /\ WeightedTotal(i) < 3000
              /\ WeightedTotal(i) + ClaimedBoost(Accepted(users[i].id)) >= 3000
              => users[i].id \notin RecIds
        /\ RecIds = {users[i].id : i \in {j \in MentorRows :
                                            Eligible(j) /\ WeightedTotal(j) >= 3000}}

\* A mentor with a total of 0.20 and no mentee (0.30 with the boost) is left
\* out; one with a total of 0.30 and five mentees is returned.
C24_Witness ==
    /\ Answered
    /\ \E i, j \in MentorRows :
          /\ Eligible(i) /\ WeightedTotal(i) = 2000 /\ Accepted(users[i].id) = 0
          /\ users[i].id \notin RecIds
          /\ Eligible(j) /\ WeightedTotal(j) = 3000 /\ Accepted(users[j].id) = 5
          /\ users[j].id \in RecIds

\* The request served last was this handler's.
IsOp(c, op) == c # None /\ "op" \in DOMAIN c /\ c.op = op

\* The PENDING rows of a (mentee, mentor) pair.
PendingOf(mentee_id, mentor_id) ==
    {i \in DOMAIN mentoring_requests :
        /\ mentoring_requests[i].mentee_id = mentee_id
        /\ mentoring_requests[i].mentor_id = mentor_id
        /\ mentoring_requests[i].status = "PENDING"}

RequestPairs ==
    {<<mentoring_requests[i].mentee_id, mentoring_requests[i].mentor_id>> :
        i \in DOMAIN mentoring_requests}

AtMostOnePending ==
    \A pair \in RequestPairs : Cardinality(PendingOf(pair[1], pair[2])) <= 1

\* A create for a pair that has a PENDING request: 409, nothing written.
DuplicateRefused ==
    IsOp(call', "create_mentoring_request")
    /\ PendingOf(call'.user, call'.mentor_id) # {}
    => /\ response'.status = 409
       /\ UNCHANGED <<mentoring_requests, notifications>>

\* C25: with the request handlers run one at a time, every (mentee, mentor)
\* pair has at most one PENDING request after any sequence of creates,
\* accepts and rejects; a create for a pair that has one returns 409, inserts
\* nothing and sends no notification.
C25_OnePendingPerPair == []AtMostOnePending /\ [][DuplicateRefused]_vars

\* A second request to a mentor who accepted the first is pending, and a
\* third was refused.
C25_Witness ==
    /\ IsOp(call, "create_mentoring_request")
    /\ call.mentor_id = "m1"
    /\ response.status = 409
    /\ Len(mentoring_requests) = 2
    /\ mentoring_requests[1].mentor_id = "m1"
    /\ mentoring_requests[1].status = "ACCEPTED"
    /\ mentoring_requests[2].mentor_id = "m1"
    /\ mentoring_requests[2].status = "PENDING"
    /\ Len(notifications) = 3

\* The create calls that have sent their insert and got the row back.
Inserted ==
    {t \in TaskIds :
        /\ tasks[t].op = "create_mentoring_request"
        /\ \/ tasks[t].pc = "notify"
           \/ tasks[t].pc = "done" /\ tasks[t].response.status = 201}

\* C26: when two create_mentoring_request calls by the same mentee for the
\* same mentor interleave, their check and their insert being separate
\* queries, at most one of them inserts a row, and the pair has at most one
\* PENDING request in every reachable state.
C26_OneCreateInserts ==
    /\ \A t \in Inserted, u \in Inserted :
          /\ tasks[t].user = tasks[u].user
          /\ tasks[t].mentor_id = tasks[u].mentor_id
          => t = u
    /\ AtMostOnePending

\* The row a request id names, if there is one.
RowsWithId(request_id) ==
    {i \in DOMAIN mentoring_requests : mentoring_requests[i].id = request_id}

IsDecision(c) ==
    IsOp(c, "accept_mentoring_request") \/ IsOp(c, "reject_mentoring_request")

\* C27: accept or reject called by a user who is not the mentor the request
\* is addressed to (the mentee who sent it included) returns 403, leaves the
\* status as it is and sends no notification, whatever the status is.
C27_OnlyTheMentorDecides ==
    [][IsDecision(call') =>
          \A i \in RowsWithId(call'.request_id) :
              mentoring_requests[i].mentor_id # call'.user =>
                  /\ response'.status = 403
                  /\ UNCHANGED <<mentoring_requests, notifications>>]_vars

\* The mentee was refused the acceptance of the request they sent.
C27_Witness ==
    /\ IsOp(call, "accept_mentoring_request")
    /\ call.user = Mentee
    /\ response.status = 403
    /\ \E i \in RowsWithId(call.request_id) :
          /\ mentoring_requests[i].mentee_id = Mentee
          /\ mentoring_requests[i].status = "PENDING"

\* C28: with the handlers run one at a time the status of a request changes
\* at most once, from PENDING to ACCEPTED by accept or from PENDING to
\* REJECTED by reject; an accept or reject of a request that is ACCEPTED or
\* REJECTED returns 400 and leaves the status as it is.
C28_DecidedOnce ==
    [][/\ \A i \in DOMAIN mentoring_requests :
             mentoring_requests'[i].status # mentoring_requests[i].status =>
                 /\ mentoring_requests[i].status = "PENDING"
                 /\ \/ /\ IsOp(call', "accept_mentoring_request")
                       /\ mentoring_requests'[i].status = "ACCEPTED"
                    \/ /\ IsOp(call', "reject_mentoring_request")
                       /\ mentoring_requests'[i].status = "REJECTED"
       /\ IsDecision(call') =>
             \A i \in RowsWithId(call'.request_id) :
                 /\ mentoring_requests[i].mentor_id = call'.user
                 /\ mentoring_requests[i].status \in {"ACCEPTED", "REJECTED"}
                 => /\ response'.status = 400
                    /\ UNCHANGED mentoring_requests]_vars

\* The mentor was refused the acceptance of a request they had rejected.
C28_Witness ==
    /\ IsOp(call, "accept_mentoring_request")
    /\ response.status = 400
    /\ \E i \in RowsWithId(call.request_id) :
          /\ mentoring_requests[i].mentor_id = call.user
          /\ mentoring_requests[i].status = "REJECTED"

\* The calls of a handler that read the request as PENDING and went on.
ReadPending(op, request_id) ==
    {t \in TaskIds :
        /\ tasks[t].op = op
        /\ tasks[t].request_id = request_id
        /\ tasks[t].existing # None}

Succeeded(t) == tasks[t].pc = "done" /\ tasks[t].response.status = 200

\* C29: when an accept and a reject of the same PENDING request interleave,
\* each reading the status before either writes, at most one of them reports
\* success, and a request whose acceptance was reported with its
\* MENTORING_ACCEPTED notification sent does not end with status REJECTED.
C29_OneDecisionWins ==
    \A request_id \in 1..MaxRequests :
        \A a \in ReadPending("accept_mentoring_request", request_id),
           r \in ReadPending("reject_mentoring_request", request_id) :
            /\ ~(Succeeded(a) /\ Succeeded(r))
            /\ /\ Succeeded(a)
               /\ tasks[r].pc = "done"
               /\ \E k \in DOMAIN notifications :
                     /\ notifications[k].type = "MENTORING_ACCEPTED"
                     /\ notifications[k].actor_id = tasks[a].user
               => \A i \in RowsWithId(request_id) :
                     mentoring_requests[i].status # "REJECTED"

\* What the requester's recommendations hold for a mentor, None without a
\* card.
CardOf(ranking, id) ==
    LET at == {k \in DOMAIN ranking.recommendations :
                  ranking.recommendations[k].mentor_id = id}
    IN  IF at = {} THEN None ELSE ranking.recommendations[CHOOSE k \in at : TRUE]

\* The recommendations a call of the requester returns over the tables.
Now == Recommendations(Requester, DefaultLimit, DefaultOffset)

\* The recommendations over the same surveys and users without any request.
WithoutRequests ==
    LET ranked == SortDesc(ScoreMentors(mentors_result(Requester), TheSurvey, <<>>))
    IN  [status |-> 200,
         recommendations |-> [k \in DOMAIN ranked |-> ranked[k][2]],
         total |-> Len(ranked)]

MentorRowIds == {users[i].id : i \in MentorRows}

\* The mentor rows that change their number of ACCEPTED requests in a step.
Accepting == {id \in MentorRowIds : Accepted(id)' # Accepted(id)}

\* Whatever the requests are, the recommendations hold the mentors they hold
\* without a request, with the same breakdowns, and each score is the total
\* and the boost for the number of ACCEPTED rows, not above the score without
\* a request.
C30_OnlyTheBoostMoves ==
    /\ Now.total = WithoutRequests.total
    /\ \A id \in MentorRowIds :
          LET base == CardOf(WithoutRequests, id)
              card == CardOf(Now, id)
          IN  /\ base = None <=> card = None
              /\ card # None =>
                    LET sum == TotalOf(card) + ClaimedBoost(Accepted(id))
                    IN  /\ card.score_breakdown = base.score_breakdown
                        /\ card.match_score = IF sum <= 10000 THEN sum ELSE 10000
                        /\ card.match_score <= base.match_score
    /\ IsRanking => response = Now

\* The number of ACCEPTED rows of a mentor, and with it the boost, moves in
\* one way: up by one with an accept that succeeds, the boost not up.
C30_Step ==
    /\ \A id \in MentorRowIds :
          /\ Accepted(id)' >= Accepted(id)
          /\ ClaimedBoost(Accepted(id)') <= ClaimedBoost(Accepted(id))
    /\ Accepting # {} =>
          /\ IsOp(call', "accept_mentoring_request")
          /\ response'.status = 200
          /\ \A id \in Accepting :
                /\ Accepted(id)' = Accepted(id) + 1
                /\ id = call'.user
    /\ IsOp(call', "reject_mentoring_request") => Accepting = {}

\* C30: accepting a PENDING request addressed to mentor M never raises M's
\* match_score in a later recommendation and changes neither M's
\* score_breakdown nor whether M is returned; rejecting a request changes
\* nothing of these; the active count of M is the number of ACCEPTED request
\* rows addressed to M.
C30_AcceptNeverRaises == []C30_OnlyTheBoostMoves /\ [][C30_Step]_vars

\* After two acceptances and a rejection by the first mentor the requester
\* is shown that mentor with 0.35 + 0.06.
C30_Witness ==
    /\ IsRanking
    /\ response.status = 200
    /\ Accepted("m1") = 2
    /\ \E i \in DOMAIN mentoring_requests :
          /\ mentoring_requests[i].mentor_id = "m1"
          /\ mentoring_requests[i].status = "REJECTED"
    /\ CardOf(response, "m1") # None
    /\ CardOf(response, "m1").match_score = 4100

====
